---- MODULE Spec2Model ----
(***************************************************************************)
(* A model of golibry/go-config, package config (src/config/builder.go):   *)
(*   - CompositeConfig.PopulateAndValidate and the reflective traversal    *)
(*     populateNestedConfigs / implementsConfig / callPopulate;            *)
(*   - Debug and its helpers debugValue, debugStruct, debugSlice,          *)
(*     debugMap, isSensitiveField, maskSensitiveData.                      *)
(* Texts are sequences of one-character strings, so that substring and     *)
(* length questions about rendered output can be decided.                  *)
(***************************************************************************)
EXTENDS Naturals, Sequences, FiniteSets, TLC

(***************************************************************************)
(* Bounds of the model.                                                    *)
(***************************************************************************)
\* the number of fields (at any depth) below the root of a configuration tree
MaxNodes == 3

(***************************************************************************)
(* Generic helpers.                                                        *)
(***************************************************************************)
Range(s) == {s[i] : i \in 1..Len(s)}

RECURSIVE SetMin(_)
SetMin(S) ==
    LET x == CHOOSE y \in S : TRUE
    IN  IF S = {x} THEN x
        ELSE LET m == SetMin(S \ {x}) IN IF x < m THEN x ELSE m

IsPrefix(p, q) == Len(p) <= Len(q) /\ SubSeq(q, 1, Len(p)) = p

\* lexicographic order of two field paths: declaration order, depth first
RECURSIVE PathLess(_, _)
PathLess(p, q) ==
    IF q = <<>> THEN FALSE
    ELSE IF p = <<>> THEN TRUE
    ELSE IF Head(p) # Head(q) THEN Head(p) < Head(q)
    ELSE PathLess(Tail(p), Tail(q))

(***************************************************************************)
(* Configuration trees handed to PopulateAndValidate.                      *)
(*                                                                         *)
(* A field is a record                                                     *)
(*   kind      "str" | "ptr" | "iface" | "struct"   (reflect.Kind)         *)
(*   recv      receiver of the Populate method the field's type declares:  *)
(*             "none" | "ptr" (func (t *T) Populate) | "value"             *)
(*   fails     whether that Populate returns an error                      *)
(*   isNil     a nil pointer / nil interface value                         *)
(*   exported  the field name is exported                                  *)
(*   embedded  the field is an embedded (anonymous) field                  *)
(*   kids      the fields of a struct, in declaration order                *)
(***************************************************************************)
Hdr(k, r, f, n, x, e) ==
    [kind |-> k, recv |-> r, fails |-> f, isNil |-> n, exported |-> x, embedded |-> e]

\* field types that are not records: a string probe, a non-nil *T whose
\* pointer type implements Config, and a nil value of interface type Config
LeafTypes ==
    { Hdr("str", "none", FALSE, FALSE, TRUE, FALSE),
      Hdr("ptr", "ptr", FALSE, FALSE, TRUE, FALSE),
      Hdr("iface", "none", FALSE, TRUE, TRUE, FALSE) }

\* record-typed fields
StructTypes ==
    { Hdr("struct", "none", FALSE, FALSE, TRUE, FALSE),
      Hdr("struct", "ptr", FALSE, FALSE, TRUE, FALSE),
      Hdr("struct", "ptr", TRUE, FALSE, TRUE, FALSE),
      Hdr("struct", "value", FALSE, FALSE, TRUE, FALSE),
      Hdr("struct", "ptr", FALSE, FALSE, FALSE, FALSE),
      Hdr("struct", "ptr", FALSE, FALSE, TRUE, TRUE),
      Hdr("struct", "ptr", FALSE, FALSE, FALSE, TRUE) }

MkNode(h, ks) ==
    [kind |-> h.kind, recv |-> h.recv, fails |-> h.fails, isNil |-> h.isNil,
     exported |-> h.exported, embedded |-> h.embedded, kids |-> ks]

FieldTypes == LeafTypes \cup StructTypes

\* what the caller passes as compositeStruct: reflect.ValueOf(compositeStruct)
RecordShapes == {"ptr", "value"}
OtherShapes == {"string", "slice", "map", "nilptr", "ptrptr", "nil"}

\* the root record: like AppConfig of the README it declares Populate itself
RootType == Hdr("struct", "ptr", FALSE, FALSE, TRUE, FALSE)

\* A field list with n fields in total is given by the nesting depth ds[i]
\* and the type ts[i] of its i-th field in declaration (pre-)order.
DepthSeqs(n) ==
    {ds \in [1..n -> 1..n] :
        /\ n >= 1 => ds[1] = 1
        /\ \A i \in 2..n : ds[i] <= ds[i - 1] + 1}

\* only records have fields
WellTyped(n, ds, ts) ==
    \A i \in 1..(n - 1) : ds[i + 1] = ds[i] + 1 => ts[i] \in StructTypes

RECURSIVE BuildFields(_, _, _, _, _)
BuildFields(ds, ts, lo, hi, d) ==
    IF lo > hi THEN << >>
    ELSE LET inside == {k \in lo..hi : \A j \in (lo + 1)..k : ds[j] > d}
             last == CHOOSE k \in inside : \A j \in inside : j <= k
         IN  <<MkNode(ts[lo], BuildFields(ds, ts, lo + 1, last, d + 1))>>
                 \o BuildFields(ds, ts, last + 1, hi, d)

IsRoot(r) ==
    \E n \in 0..MaxNodes : \E ds \in DepthSeqs(n) : \E ts \in [1..n -> FieldTypes] :
        /\ WellTyped(n, ds, ts)
        /\ r = MkNode(RootType, BuildFields(ds, ts, 1, n, 1))

RECURSIVE NodeAt(_, _)
NodeAt(n, p) == IF p = <<>> THEN n ELSE NodeAt(n.kids[Head(p)], Tail(p))

RECURSIVE AllPaths(_)
AllPaths(n) ==
    {<<>>} \cup UNION { { <<i>> \o q : q \in AllPaths(n.kids[i]) } : i \in 1..Len(n.kids) }

\* reflect.StructField.Name of the field at path p; every field of a tree
\* gets a name of its own
RECURSIVE FieldName(_)
FieldName(p) ==
    IF p = <<>> THEN "Root"
    ELSE IF Len(p) = 1 THEN "F" \o ToString(p[1])
    ELSE FieldName(SubSeq(p, 1, Len(p) - 1)) \o "_" \o ToString(p[Len(p)])

(***************************************************************************)
(* Go method sets, as reflect.Type.Implements sees them.  A struct has     *)
(* Populate when it declares it, or when exactly one of its embedded       *)
(* fields provides it at the shallowest depth (method promotion).          *)
(***************************************************************************)
NoMethod == [has |-> FALSE, depth |-> 0, via |-> <<>>, recv |-> "none", fails |-> FALSE]

RECURSIVE MethodOf(_)
MethodOf(n) ==
    IF n.kind # "struct" THEN NoMethod
    ELSE IF n.recv # "none"
    THEN [has |-> TRUE, depth |-> 0, via |-> <<>>, recv |-> n.recv, fails |-> n.fails]
    ELSE LET cands == {i \in 1..Len(n.kids) :
                          n.kids[i].embedded /\ MethodOf(n.kids[i]).has}
         IN  IF cands = {} THEN NoMethod
             ELSE LET minD == SetMin({MethodOf(n.kids[i]).depth : i \in cands})
                      best == {i \in cands : MethodOf(n.kids[i]).depth = minD}
                  IN  IF Cardinality(best) # 1 THEN NoMethod
                      ELSE LET i == CHOOSE j \in best : TRUE
                               m == MethodOf(n.kids[i])
                           IN  [has |-> TRUE, depth |-> minD + 1, via |-> <<i>> \o m.via,
                                recv |-> m.recv, fails |-> m.fails]

\* val.Type().Implements(configType)
TypeImplements(n) ==
    \/ n.kind = "iface"
    \/ n.kind = "ptr" /\ n.recv # "none"
    \/ n.kind = "struct" /\ MethodOf(n).has /\ MethodOf(n).recv = "value"

\* val.Addr().Type().Implements(configType)
AddrImplements(n) == n.kind = "struct" /\ MethodOf(n).has

(***************************************************************************)
(* Error texts: a sequence of text segments; fmt.Errorf("...: %w") puts    *)
(* its own segments in front of the wrapped error's.  <<>> is a nil error. *)
(***************************************************************************)
NilErr == << >>

ErrContains(e, seg) == seg \in Range(e)

\* %T of the value passed as compositeStruct
TypeName(sh) ==
    CASE sh = "ptr" -> "*config.AppConfig"
      [] sh = "value" -> "config.AppConfig"
      [] sh = "string" -> "string"
      [] sh = "slice" -> "[]string"
      [] sh = "map" -> "map[string]string"
      [] sh = "nilptr" -> "*config.AppConfig"
      [] sh = "ptrptr" -> "**config.AppConfig"
      [] sh = "nil" -> "<nil>"

\* the error a failing Populate of the record at path p returns
Cause(p) == "populate failed in " \o FieldName(p)

(***************************************************************************)
(* LoadEnvVars: the four env files, in the order they are tried.  A        *)
(* directory says of each file whether it is absent, loads, or fails to    *)
(* parse.                                                                  *)
(***************************************************************************)
EnvNames == {"dev", "test"}
FileStates == {"absent", "ok", "bad"}
EnvFiles == <<"envLocal", "local", "envFile", "base">>

FilePath(slot, env) ==
    CASE slot = "envLocal" -> ".env." \o env \o ".local"
      [] slot = "local" -> ".env.local"
      [] slot = "envFile" -> ".env." \o env
      [] slot = "base" -> ".env"

\* the directories tried: at most one file loads and at most one, .env.local
\* or .env, fails to parse
Dirs ==
    {d \in [Range(EnvFiles) -> FileStates] :
        /\ {s \in Range(EnvFiles) : d[s] = "bad"} \in {{}, {"local"}, {"base"}}
        /\ Cardinality({s \in Range(EnvFiles) : d[s] = "ok"}) <= 1}

formatEnvLoadErr(fileName, msg) ==
    <<"error occurred while trying to load env file: ", fileName, ". Error message: ", msg>>

RECURSIVE LoadEnvFrom(_, _, _)
LoadEnvFrom(k, env, dir) ==
    IF k > Len(EnvFiles) THEN NilErr
    ELSE LET slot == EnvFiles[k]
             tried == ~(slot = "local" /\ env = "test") /\ dir[slot] # "absent"
         IN  IF tried /\ dir[slot] = "bad"
             THEN formatEnvLoadErr(FilePath(slot, env), "unexpected character in variable name")
             ELSE LoadEnvFrom(k + 1, env, dir)

LoadEnvVars(env, dir) == LoadEnvFrom(1, env, dir)

\* what LoadEnvVars can return for the environments and directories tried
EnvOutcomes == {LoadEnvVars(env, dir) : env \in EnvNames, dir \in Dirs}

(***************************************************************************)
(* LoadEnvVars with the variables it sets. A file is [state, defines]: the *)
(* state as above and the names the file gives a value to. The value a     *)
(* file gives is written as the file's slot; "preset" is a value set       *)
(* before the call, "unset" stands for a variable that is not set.         *)
(***************************************************************************)
EnvVarNames == {"DB_HOST", "DB_PASSWORD"}

EnvFile(st, defs) == [state |-> st, defines |-> defs]

EnvFileKinds ==
    {EnvFile("absent", {}), EnvFile("bad", {})}
        \cup {EnvFile("ok", defs) : defs \in SUBSET EnvVarNames}

EmptyDir == [slot \in Range(EnvFiles) |-> EnvFile("absent", {})]

NoEnviron == [x \in EnvVarNames |-> "unset"]

\* godotenv.Load(file) of a file that parses, but overwriting what is set
godotenvLoad_Overload(env, slot, file) ==
    [x \in EnvVarNames |-> IF x \in file.defines THEN slot ELSE env[x]]

\* godotenv.Load(file) of a file that parses: sets the names that are not set
godotenvLoad(env, slot, file) ==
    [x \in EnvVarNames |->
        IF env[x] = "unset" /\ x \in file.defines THEN slot ELSE env[x]]

\* LoadEnvVars from the k-th file on: the error returned and the environment
RECURSIVE LoadEnvVarsFrom(_, _, _, _)
LoadEnvVarsFrom(k, env, dir, penv) ==
    IF k > Len(EnvFiles) THEN [err |-> NilErr, environ |-> penv]
    ELSE LET slot == EnvFiles[k]
             tried == ~(slot = "local" /\ env = "test") /\ dir[slot].state # "absent"
         IN  IF tried /\ dir[slot].state = "bad"
             THEN [err |-> formatEnvLoadErr(FilePath(slot, env),
                                            "unexpected character in variable name"),
                   environ |-> penv]
             ELSE LoadEnvVarsFrom(k + 1, env, dir,
                      IF tried THEN godotenvLoad(penv, slot, dir[slot]) ELSE penv)

(***************************************************************************)
(* Texts are sequences of characters.                                      *)
(***************************************************************************)
\* the longest text value of a field under test
MaxTextLen == 3

Repeat(c, n) == [i \in 1..n |-> c]

\* strings.Contains(s, sub)
IsSubstring(sub, s) ==
    \E i \in 0..(Len(s) - Len(sub)) : SubSeq(s, i + 1, i + Len(sub)) = sub

UpperChars ==
    <<"A", "B", "C", "D", "E", "F", "G", "H", "I", "J", "K", "L", "M",
      "N", "O", "P", "Q", "R", "S", "T", "U", "V", "W", "X", "Y", "Z">>
LowerChars ==
    <<"a", "b", "c", "d", "e", "f", "g", "h", "i", "j", "k", "l", "m",
      "n", "o", "p", "q", "r", "s", "t", "u", "v", "w", "x", "y", "z">>

\* strings.ToLower
ToLowerChar(c) ==
    IF \E i \in 1..Len(UpperChars) : UpperChars[i] = c
    THEN LowerChars[CHOOSE i \in 1..Len(UpperChars) : UpperChars[i] = c]
    ELSE c

ToLower(t) == [i \in 1..Len(t) |-> ToLowerChar(t[i])]

\* the characters in byte order, as fmt orders the keys of a map it prints
ByteOrder ==
    <<"\n", " ", "&", "*", "0", "1", "2", "3", "4", "5", "6", "7", "8", "9",
      ":", "<", ">", "@">> \o UpperChars \o <<"[", "]", "_">> \o LowerChars \o <<"{", "}">>

CharCode(c) == CHOOSE i \in 1..Len(ByteOrder) : ByteOrder[i] = c

RECURSIVE TextLess(_, _)
TextLess(a, b) ==
    IF b = << >> THEN FALSE
    ELSE IF a = << >> THEN TRUE
    ELSE IF Head(a) # Head(b) THEN CharCode(Head(a)) < CharCode(Head(b))
    ELSE TextLess(Tail(a), Tail(b))

\* strings.Split(t, c) for a one-character separator
RECURSIVE Split(_, _)
Split(t, c) ==
    IF \A i \in 1..Len(t) : t[i] # c THEN <<t>>
    ELSE LET i == CHOOSE j \in 1..Len(t) : t[j] = c /\ \A k \in 1..(j - 1) : t[k] # c
         IN  <<SubSeq(t, 1, i - 1)>> \o Split(SubSeq(t, i + 1, Len(t)), c)

(***************************************************************************)
(* maskSensitiveData                                                       *)
(***************************************************************************)
\* A text is the sequence of its bytes. A byte below 0x80 is written as its
\* ASCII character; the bytes 0x82, 0x83, 0xA9, 0xC2 and 0xC3 are written "82",
\* "83", "A9", "C2" and "C3" ("C3" "A9" is the UTF-8 encoding of U+00E9).
HighBytes == {"82", "83", "A9", "C2", "C3"}

\* string(b) for a byte b: the UTF-8 encoding of the code point numbered b
ByteToString(b) ==
    CASE b = "82" -> <<"C2", "82">>
      [] b = "83" -> <<"C2", "83">>
      [] b = "A9" -> <<"C2", "A9">>
      [] b = "C2" -> <<"C3", "82">>
      [] b = "C3" -> <<"C3", "83">>
      [] OTHER -> <<b>>

MaskMiddle(t) ==
    ByteToString(t[1]) \o Repeat("*", Len(t) - 2) \o ByteToString(t[Len(t)])

maskSensitiveData(data) ==
    IF data = << >> THEN << >>
    ELSE LET parts == Split(data, "@")
             userPass == parts[1]
         IN  IF /\ IsSubstring(<<"@">>, data) /\ IsSubstring(<<":">>, data)
                /\ Len(parts) >= 2
                /\ Len(userPass) > 2
             THEN MaskMiddle(userPass) \o <<"@">> \o parts[2]
             ELSE IF Len(data) <= 2 THEN Repeat("*", Len(data))
             ELSE MaskMiddle(data)

(***************************************************************************)
(* isSensitiveField                                                        *)
(***************************************************************************)
\* isSensitiveField without lower-casing
isSensitiveField_CaseSensitive(fieldName, sensitiveKeys) ==
    \E k \in 1..Len(sensitiveKeys) : IsSubstring(sensitiveKeys[k], fieldName)

isSensitiveField(fieldName, sensitiveKeys) ==
    \E k \in 1..Len(sensitiveKeys) :
        IsSubstring(ToLower(sensitiveKeys[k]), ToLower(fieldName))

(***************************************************************************)
(* Values handed to Debug: [kind, text, kids].                             *)
(*   kind  "nil" (an untyped nil) | "string" | "int" | "bool" | "ptr" |    *)
(*         "struct" | "slice" | "map"                                      *)
(*   text  the %v form of a scalar                                         *)
(*   kids  [name, exported, val]: the fields of a struct, the elements of  *)
(*         a slice, the entries of a map (name is the key's text), the     *)
(*         value a pointer points to (none for a nil pointer)              *)
(***************************************************************************)
DValue(k, t, ks) == [kind |-> k, text |-> t, kids |-> ks]
Member(n, x, v) == [name |-> n, exported |-> x, val |-> v]

DNil == DValue("nil", << >>, << >>)
DStr(t) == DValue("string", t, << >>)
DInt(t) == DValue("int", t, << >>)
DNilPtr == DValue("ptr", << >>, << >>)
DPtr(v) == DValue("ptr", << >>, <<Member(<< >>, TRUE, v)>>)
DStruct(fs) == DValue("struct", << >>, fs)
DSlice(vs) == DValue("slice", << >>, [i \in 1..Len(vs) |-> Member(<< >>, TRUE, vs[i])])
DMap(es) == DValue("map", << >>, es)

IsScalar(v) == v.kind \in {"string", "int", "bool"}

(***************************************************************************)
(* fmt.Sprintf("%v", x)                                                    *)
(***************************************************************************)
\* the entries of a map in the order of their keys
RECURSIVE SortByKey(_)
SortByKey(es) ==
    IF es = << >> THEN << >>
    ELSE LET i == CHOOSE j \in 1..Len(es) :
                      \A k \in 1..Len(es) : ~TextLess(es[k].name, es[j].name)
             rest == [k \in 1..(Len(es) - 1) |-> IF k < i THEN es[k] ELSE es[k + 1]]
         IN  <<es[i]>> \o SortByKey(rest)

\* how fmt prints a pointer it does not follow
Address == <<"0", "x", "c", "0", "0", "0", "0", "1", "2", "3", "4", "5">>

RECURSIVE fmtV(_, _)
RECURSIVE fmtJoin(_, _, _)
fmtJoin(ks, depth, withKeys) ==
    IF ks = << >> THEN << >>
    ELSE (IF withKeys THEN Head(ks).name \o <<":">> ELSE << >>)
             \o fmtV(Head(ks).val, depth)
             \o (IF Len(ks) > 1 THEN <<" ">> ELSE << >>)
             \o fmtJoin(Tail(ks), depth, withKeys)

fmtV(v, depth) ==
    CASE v.kind = "nil" -> <<"<", "n", "i", "l", ">">>
      [] IsScalar(v) -> v.text
      [] v.kind = "struct" -> <<"{">> \o fmtJoin(v.kids, depth + 1, FALSE) \o <<"}">>
      [] v.kind = "slice" -> <<"[">> \o fmtJoin(v.kids, depth + 1, FALSE) \o <<"]">>
      [] v.kind = "map" ->
            <<"m", "a", "p", "[">> \o fmtJoin(SortByKey(v.kids), depth + 1, TRUE) \o <<"]">>
      [] v.kind = "ptr" ->
            IF v.kids = << >> THEN <<"<", "n", "i", "l", ">">>
            ELSE IF depth = 0 /\ v.kids[1].val.kind \in {"struct", "slice", "map"}
            THEN <<"&">> \o fmtV(v.kids[1].val, depth + 1)
            ELSE Address

(***************************************************************************)
(* Debug, debugValue, debugStruct, debugSlice, debugMap, writeIndent: each *)
(* operator is the text the function appends to the builder.               *)
(***************************************************************************)
Header == <<"C", "o", "n", "f", "i", "g", " ", "D", "e", "b", "u", "g", " ", "O", "u", "t", "p", "u", "t", ":", "\n">>

writeIndent(indent) == Repeat(" ", 2 * indent)

\* val.MapKeys(): the entries in one of the orders the runtime may produce
MapOrders == {"stored", "reversed"}

MapKeys(val, ord) ==
    IF ord = "stored" THEN val.kids
    ELSE [i \in 1..Len(val.kids) |-> val.kids[Len(val.kids) + 1 - i]]

RECURSIVE debugValue(_, _, _, _)
RECURSIVE debugStruct(_, _, _, _, _)
RECURSIVE debugSlice(_, _, _, _, _)
RECURSIVE debugMap(_, _, _, _, _)

debugValue(val, sensitiveKeys, indent, ord) ==
    IF val.kind = "ptr"
    THEN IF val.kids = << >>
         THEN writeIndent(indent) \o <<"n", "i", "l", "\n">>
         ELSE debugValue(val.kids[1].val, sensitiveKeys, indent, ord)
    ELSE CASE val.kind = "struct" -> debugStruct(val, sensitiveKeys, indent, ord, 1)
           [] val.kind = "slice" -> debugSlice(val, sensitiveKeys, indent, ord, 1)
           [] val.kind = "map" ->
                 debugMap(MapKeys(val, ord), sensitiveKeys, indent, ord, 1)
           [] OTHER -> writeIndent(indent) \o fmtV(val, 0) \o <<"\n">>

\* the loop over the fields, from field i on
debugStruct(val, sensitiveKeys, indent, ord, i) ==
    IF i > Len(val.kids) THEN << >>
    ELSE LET field == val.kids[i]
             line ==
                 IF ~field.exported THEN << >>
                 ELSE writeIndent(indent) \o field.name \o <<":", " ">> \o
                      (IF isSensitiveField(field.name, sensitiveKeys)
                       THEN maskSensitiveData(fmtV(field.val, 0)) \o <<"\n">>
                       ELSE IF field.val.kind \in {"struct", "slice", "map"}
                       THEN <<"\n">> \o debugValue(field.val, sensitiveKeys, indent + 1, ord)
                       ELSE fmtV(field.val, 0) \o <<"\n">>)
         IN  line \o debugStruct(val, sensitiveKeys, indent, ord, i + 1)

\* debugSlice without its case for a slice of length zero
debugSlice_EmptyAsNothing(val, sensitiveKeys, indent, ord, i) ==
    IF i > Len(val.kids) THEN << >>
    ELSE LET elem == val.kids[i].val
         IN  writeIndent(indent) \o <<"[", ToString(i - 1), "]", ":", " ">> \o
             (IF elem.kind = "struct"
              THEN <<"\n">> \o debugValue(elem, sensitiveKeys, indent + 1, ord)
              ELSE fmtV(elem, 0) \o <<"\n">>)
             \o debugSlice(val, sensitiveKeys, indent, ord, i + 1)

\* the loop over the elements, from element i on (i counts from 1, [%d] from 0)
debugSlice(val, sensitiveKeys, indent, ord, i) ==
    IF Len(val.kids) = 0 THEN writeIndent(indent) \o <<"[", "]", "\n">>
    ELSE IF i > Len(val.kids) THEN << >>
    ELSE LET elem == val.kids[i].val
         IN  writeIndent(indent) \o <<"[", ToString(i - 1), "]", ":", " ">> \o
             (IF elem.kind = "struct"
              THEN <<"\n">> \o debugValue(elem, sensitiveKeys, indent + 1, ord)
              ELSE fmtV(elem, 0) \o <<"\n">>)
             \o debugSlice(val, sensitiveKeys, indent, ord, i + 1)

\* the loop over the keys, from key i on
debugMap(keys, sensitiveKeys, indent, ord, i) ==
    IF Len(keys) = 0 THEN writeIndent(indent) \o <<"{", "}", "\n">>
    ELSE IF i > Len(keys) THEN << >>
    ELSE LET keyStr == keys[i].name
             mapVal == keys[i].val
         IN  writeIndent(indent) \o keyStr \o <<":", " ">> \o
             (IF isSensitiveField(keyStr, sensitiveKeys)
              THEN maskSensitiveData(fmtV(mapVal, 0)) \o <<"\n">>
              ELSE IF mapVal.kind = "struct"
              THEN <<"\n">> \o debugValue(mapVal, sensitiveKeys, indent + 1, ord)
              ELSE fmtV(mapVal, 0) \o <<"\n">>)
             \o debugMap(keys, sensitiveKeys, indent, ord, i + 1)

Debug(config, sensitiveKeys, ord) ==
    IF config.kind = "nil" THEN <<"n", "i", "l">>
    ELSE Header \o debugValue(config, sensitiveKeys, 0, ord)

(***************************************************************************)
(* State of one PopulateAndValidate call.                                  *)
(***************************************************************************)
VARIABLES
    shape,   \* what compositeStruct is: a member of RecordShapes or OtherShapes
    root,    \* the record compositeStruct is or points to
    vals,    \* value of every string field: "init" (as the caller left it) or "env"
    pc,      \* "start" | "enter" | "loop" | "validate" | "done" | "panic"
    stack,   \* the active populateNestedConfigs calls: [at, i, addr], innermost last
    err,     \* the error PopulateAndValidate returns, once pc = "done"
    trace,   \* what has happened so far, in order: [ev, at, recv, ok] with ev
             \* "env" | "populate" | "validate", the field visited (at), the record
             \* whose Populate ran (recv) and whether the step returned nil (ok)
    dbgIn,   \* Debug: the config value passed in
    dbgKeys, \* Debug: the sensitiveKeys passed in
    dbgPc,   \* Debug: "idle" | "call" | "done"
    dbgOut,  \* Debug: the text returned
    data,    \* maskSensitiveData: the text passed in, as bytes
    maskPc,  \* maskSensitiveData: "idle" | "call" | "done"
    masked,  \* maskSensitiveData: the text returned, as bytes
    environ0, \* LoadEnvVars: the process environment before the call
    environ, \* LoadEnvVars: the process environment
    envArg,  \* LoadEnvVars: the env argument
    appDir,  \* LoadEnvVars: the files of appBaseDir
    envPc,   \* LoadEnvVars: "idle" | "call" | "done"
    envRet   \* LoadEnvVars: the error returned

StrPaths(r) == {p \in AllPaths(r) : NodeAt(r, p).kind = "str"}

Event(e, p, q, ok) == [ev |-> e, at |-> p, recv |-> q, ok |-> ok]

EmptyRoot == MkNode(Hdr("struct", "none", FALSE, FALSE, TRUE, FALSE), <<>>)

vars == <<shape, root, vals, pc, stack, err, trace, dbgIn, dbgKeys, dbgPc, dbgOut,
          data, maskPc, masked, environ0, environ, envArg, appDir, envPc, envRet>>

\* the variables of a Debug call, which PopulateAndValidate never touches
dvars == <<dbgIn, dbgKeys, dbgPc, dbgOut>>

\* the variables of a PopulateAndValidate call, which Debug never touches
pvars == <<shape, root, vals, pc, stack, err, trace>>

\* the variables of a direct maskSensitiveData call
mvars == <<data, maskPc, masked>>

\* the variables of a direct LoadEnvVars call
evars == <<environ0, environ, envArg, appDir, envPc, envRet>>

\* no LoadEnvVars call of its own is under way
EnvIdle ==
    /\ environ0 = NoEnviron /\ environ = NoEnviron /\ envArg = "dev"
    /\ appDir = EmptyDir /\ envPc = "idle" /\ envRet = NilErr

Init ==
    /\ \/ shape \in RecordShapes /\ IsRoot(root)
       \/ shape \in OtherShapes /\ root = EmptyRoot
    /\ vals = [p \in StrPaths(root) |-> "init"]
    /\ pc = "start"
    /\ stack = << >>
    /\ err = NilErr
    /\ trace = << >>
    /\ dbgIn = DNil /\ dbgKeys = << >> /\ dbgPc = "idle" /\ dbgOut = << >>
    /\ data = << >> /\ maskPc = "idle" /\ masked = << >>
    /\ EnvIdle

(***************************************************************************)
(* PopulateAndValidate, first step: LoadEnvVars(defaultEnv, defaultAppDir) *)
(***************************************************************************)
\* a variant that goes on to populate although loading failed
LoadEnv_KeepsGoing ==
    /\ pc = "start"
    /\ \E e \in EnvOutcomes :
          /\ trace' = Append(trace, Event("env", <<>>, <<>>, e = NilErr))
          /\ err' = err
          /\ pc' = "enter"
    /\ UNCHANGED <<shape, root, vals, stack>>
    /\ UNCHANGED <<dvars, mvars, evars>>

LoadEnv ==
    /\ pc = "start"
    /\ \E e \in EnvOutcomes :
          /\ trace' = Append(trace, Event("env", <<>>, <<>>, e = NilErr))
          /\ IF e # NilErr
             THEN /\ err' = <<"failed to load environment variables", ": ">> \o e
                  /\ pc' = "done"
             ELSE /\ err' = err
                  /\ pc' = "enter"
    /\ UNCHANGED <<shape, root, vals, stack>>
    /\ UNCHANGED <<dvars, mvars, evars>>

(***************************************************************************)
(* populateNestedConfigs                                                   *)
(***************************************************************************)
\* field.CanSet() for a field of the record a call iterates over: the record
\* is addressable and the field is exported
\* a variant for which every field can be set
CanSet_Always(frame, n) == TRUE

CanSet(frame, n) == frame.addr /\ n.exported

\* val.CanInterface(), val.CanAddr() for such a field
CanInterface(frame, n) == n.exported
CanAddr(frame, n) == frame.addr

\* a variant that forgets the addressable reference
implementsConfig_TypeOnly(frame, n) ==
    IF ~CanInterface(frame, n) THEN FALSE ELSE TypeImplements(n)

implementsConfig(frame, n) ==
    IF ~CanInterface(frame, n) THEN FALSE
    ELSE TypeImplements(n) \/ (CanAddr(frame, n) /\ AddrImplements(n))

\* callPopulate on the field at path p: which branch obtains the Config, whose
\* Populate runs (recv), whether it runs on the field itself or on a copy
\* (inPlace), and what it returns
callPopulate(frame, p) ==
    LET n == NodeAt(root, p)
        m == MethodOf(n)
        target == IF n.kind = "struct" THEN p \o m.via ELSE p
        fails == IF n.kind = "struct" THEN m.fails ELSE n.fails
        res(inPlace) ==
            [panic |-> FALSE, invoked |-> TRUE, recv |-> target, inPlace |-> inPlace,
             err |-> IF fails THEN <<Cause(target)>> ELSE NilErr]
    IN  IF TypeImplements(n)
        THEN IF n.kind = "iface" /\ n.isNil
             THEN [panic |-> TRUE, invoked |-> FALSE, recv |-> p, inPlace |-> FALSE,
                   err |-> NilErr]
             ELSE res(n.kind # "struct")
        ELSE IF CanAddr(frame, n) /\ AddrImplements(n)
        THEN res(TRUE)
        ELSE [panic |-> FALSE, invoked |-> FALSE, recv |-> p, inPlace |-> FALSE,
              err |-> <<"field does not implement Config interface">>]

\* the error as it leaves the active calls: every call that recursed into a
\* nested record wraps it with that record's field name, and
\* PopulateAndValidate wraps the result
\* a variant that reports the failure without wrapping its cause
Unwind_NoCause(stk, e) == <<"failed to populate nested configs">>

RECURSIVE Unwind(_, _)
Unwind(stk, e) ==
    IF Len(stk) <= 1
    THEN <<"failed to populate nested configs", ": ">> \o e
    ELSE Unwind(SubSeq(stk, 1, Len(stk) - 1),
                <<"failed to populate nested struct in field ",
                  FieldName(stk[Len(stk)].at), ": ">> \o e)

\* a variant that collects errors and goes on
PopulateFailed_Never(call, r) == FALSE

\* if err := c.callPopulate(field); err != nil
PopulateFailed(call, r) == call /\ r.err # NilErr

\* what a Populate that succeeds writes: the string fields of its record
Written(p) == {q \in StrPaths(root) : Len(q) = Len(p) + 1 /\ IsPrefix(p, q)}

\* a call whose loop is over returns nil, and its caller's loop goes on
RECURSIVE Settle(_)
Settle(stk) ==
    IF stk = << >> THEN stk
    ELSE IF stk[Len(stk)].i > Len(NodeAt(root, stk[Len(stk)].at).kids)
    THEN Settle(SubSeq(stk, 1, Len(stk) - 1))
    ELSE stk

\* a variant that follows a chain of references down to a record
IsRecord_DerefLoop(sh) == sh \in RecordShapes \cup {"ptrptr"}

\* val.Kind() == reflect.Struct, after one dereference of a reference
IsRecord(sh) == sh \in RecordShapes

\* a variant that applies the capability check to the record itself
EnterRoot_PopulatesRoot ==
    /\ pc = "enter"
    /\ IF IsRecord(shape)
       THEN LET stk == Settle(<<[at |-> <<>>, i |-> 1, addr |-> (shape = "ptr")]>>)
            IN  /\ stack' = stk
                /\ pc' = IF stk = << >> THEN "validate" ELSE "loop"
                /\ err' = err
                /\ trace' = Append(trace, Event("populate", <<>>, <<>>, TRUE))
                /\ vals' = [q \in DOMAIN vals |->
                               IF q \in Written(<<>>) THEN "env" ELSE vals[q]]
       ELSE /\ err' = <<"failed to populate nested configs", ": ",
                        "expected struct or pointer to struct", ", got ", TypeName(shape)>>
            /\ pc' = "done"
            /\ UNCHANGED <<stack, vals, trace>>
    /\ UNCHANGED <<shape, root>>
    /\ UNCHANGED <<dvars, mvars, evars>>

\* entry of the outermost call: the shape check on compositeStruct
EnterRoot ==
    /\ pc = "enter"
    /\ IF IsRecord(shape)
       THEN LET stk == Settle(<<[at |-> <<>>, i |-> 1, addr |-> (shape = "ptr")]>>)
            IN  /\ stack' = stk
                /\ pc' = IF stk = << >> THEN "validate" ELSE "loop"
                /\ err' = err
       ELSE /\ err' = <<"failed to populate nested configs", ": ",
                        "expected struct or pointer to struct", ", got ", TypeName(shape)>>
            /\ pc' = "done"
            /\ stack' = stack
    /\ UNCHANGED <<shape, root, vals, trace>>
    /\ UNCHANGED <<dvars, mvars, evars>>

Advance(stk) == [stk EXCEPT ![Len(stk)].i = @ + 1]

\* a variant that puts the nested record off until the enclosing loops are over
Descend_Deferred(stk, p) == <<[at |-> p, i |-> 1, addr |-> TRUE]>> \o Advance(stk)

\* the recursive call for the record field at p: its loop runs to its end
\* before the loop of the caller goes on
Descend(stk, p) == Append(Advance(stk), [at |-> p, i |-> 1, addr |-> TRUE])

\* one iteration of the loop over the fields of the innermost call
VisitField ==
    /\ pc = "loop"
    /\ LET top == stack[Len(stack)]
           p == top.at \o <<top.i>>
       IN  /\ top.i <= Len(NodeAt(root, top.at).kids)
           /\ LET n == NodeAt(root, p)
                  call == implementsConfig(top, n)
                  r == callPopulate(top, p)
                  recurse == n.kind = "struct"
                  stk == Settle(IF CanSet(top, n) /\ recurse
                                THEN Descend(stack, p)
                                ELSE Advance(stack))
              IN  IF ~CanSet(top, n)
                  THEN /\ stack' = stk
                       /\ pc' = IF stk = << >> THEN "validate" ELSE "loop"
                       /\ UNCHANGED <<vals, err, trace>>
                  ELSE IF call /\ r.panic
                  THEN /\ pc' = "panic"
                       /\ UNCHANGED <<vals, stack, err, trace>>
                  ELSE /\ trace' = IF call /\ r.invoked
                                   THEN Append(trace, Event("populate", p, r.recv, r.err = NilErr))
                                   ELSE trace
                       /\ IF PopulateFailed(call, r)
                          THEN /\ err' = Unwind(stack,
                                            <<"failed to populate field ", FieldName(p), ": ">>
                                                \o r.err)
                               /\ pc' = "done"
                               /\ stack' = << >>
                               /\ vals' = vals
                          ELSE /\ vals' = IF call /\ r.inPlace
                                          THEN [q \in DOMAIN vals |->
                                                   IF q \in Written(r.recv) THEN "env"
                                                   ELSE vals[q]]
                                          ELSE vals
                               /\ stack' = stk
                               /\ pc' = IF stk = << >> THEN "validate" ELSE "loop"
                               /\ err' = err
    /\ UNCHANGED <<shape, root>>
    /\ UNCHANGED <<dvars, mvars, evars>>

(***************************************************************************)
(* c.validator.Struct(compositeStruct): every string field is tagged       *)
(* validate:"required"; the validator walks exported fields and nested     *)
(* records and reports the required fields that are still empty.           *)
(***************************************************************************)
Visible(p) == \A k \in 1..Len(p) : NodeAt(root, SubSeq(p, 1, k)).exported

Violations == {p \in StrPaths(root) : Visible(p) /\ vals[p] = "init"}

RECURSIVE InOrder(_)
InOrder(S) ==
    IF S = {} THEN << >>
    ELSE LET p == CHOOSE x \in S : \A y \in S \ {x} : PathLess(x, y)
         IN  <<p>> \o InOrder(S \ {p})

ViolationText(ps) == [k \in 1..Len(ps) |-> "Field validation for '" \o FieldName(ps[k]) \o "' failed on the 'required' tag"]

\* a variant that drops the validator's answer
validationError_Swallowed(viol) == NilErr

\* if err := c.validator.Struct(compositeStruct); err != nil
validationError(viol) ==
    IF viol # << >>
    THEN <<"config ", "validation failed", ": ">> \o ViolationText(viol)
    ELSE NilErr

Validate ==
    /\ pc = "validate"
    /\ trace' = Append(trace, Event("validate", <<>>, <<>>, Violations = {}))
    /\ err' = validationError(InOrder(Violations))
    /\ pc' = "done"
    /\ UNCHANGED <<shape, root, vals, stack>>
    /\ UNCHANGED <<dvars, mvars, evars>>

Next == LoadEnv \/ EnterRoot \/ VisitField \/ Validate

Spec == Init /\ [][Next]_vars

(***************************************************************************)
(* One Debug call: the values and vocabularies it is given.                *)
(***************************************************************************)
\* the characters of the text values under test
Alphabet == {"a", "s", "*", "@", ":"}

Texts == UNION {[1..n -> Alphabet] : n \in 0..MaxTextLen}

\* field names as a config declares them
NamePass == <<"P", "a", "s", "s">>
NamePASS == <<"P", "A", "S", "S">>
NameHost == <<"H", "o", "s", "t">>
NameDB == <<"D", "B">>
NameItems == <<"I", "t", "e", "m", "s">>
NameTags == <<"T", "a", "g", "s">>
NamePort == <<"P", "o", "r", "t">>

FieldNames == {NamePass, NamePASS, NameHost}

\* sensitiveKeys as a caller passes them
Vocabularies == {<< >>, <<<<"p", "a", "s", "s">>>>, <<<<"P", "A", "S", "S">>>>, <<<<"k", "e", "y">>, <<"P", "a", "s", "s">>>>, <<<<"o", "s">>>>}

HostField == Member(NameHost, TRUE, DStr(<<"a", "s">>))
PortField == Member(NamePort, TRUE, DInt(<<"8", "0">>))

\* the configs that hold the field f, one per place a field can sit in
ConfigsWith(f) ==
    LET rec == DStruct(<<f>>)
    IN  { DStruct(<<f>>),
          DPtr(DStruct(<<f>>)),
          DPtr(DStruct(<<HostField, f, PortField>>)),
          DPtr(DStruct(<<Member(NameDB, TRUE, rec)>>)),
          DPtr(DStruct(<<Member(NameDB, TRUE, DPtr(rec))>>)),
          DPtr(DStruct(<<Member(NameDB, TRUE, DNilPtr), f>>)),
          DPtr(DStruct(<<Member(NameItems, TRUE, DSlice(<<rec, rec>>))>>)),
          DPtr(DStruct(<<Member(NameItems, TRUE, DSlice(<<DPtr(rec)>>))>>)),
          DPtr(DStruct(<<Member(NameItems, TRUE, DSlice(<<f.val, DStr(<<"a", "s">>)>>))>>)),
          DPtr(DStruct(<<Member(NameTags, TRUE, DMap(<<Member(f.name, TRUE, rec)>>))>>)),
          DPtr(DStruct(<<Member(NameTags, TRUE,
                            DMap(<<f, Member(NameHost, TRUE, DStr(<<"a", "s">>))>>))>>)),
          DPtr(DStruct(<<Member(f.name, FALSE, f.val), HostField>>)),
          DSlice(<<rec>>),
          DSlice(<<DMap(<<f>>)>>),
          DMap(<<Member(NameHost, TRUE, DSlice(<<rec>>))>>),
          DMap(<<f>>),
          f.val }

\* the configs without a field under test
OtherConfigs ==
    { DNil, DNilPtr, DPtr(DNilPtr), DStruct(<< >>), DSlice(<< >>), DMap(<< >>),
      DPtr(DStruct(<<Member(NameItems, TRUE, DSlice(<< >>)),
                     Member(NameTags, TRUE, DMap(<< >>))>>)),
      DSlice(<<DSlice(<< >>)>>), DSlice(<<DMap(<< >>)>>),
      DMap(<<Member(NameHost, TRUE, DSlice(<< >>))>>),
      DMap(<<Member(NameHost, TRUE, DMap(<< >>))>>),
      DStruct(<<Member(NamePass, TRUE, DSlice(<< >>))>>),
      DStruct(<<Member(NamePass, TRUE, DMap(<< >>))>>) }

InitDebug ==
    /\ shape = "nil" /\ root = EmptyRoot
    /\ vals = [p \in StrPaths(root) |-> "init"]
    /\ pc = "idle" /\ stack = << >> /\ err = NilErr /\ trace = << >>
    /\ \/ dbgIn \in OtherConfigs
       \/ \E n \in FieldNames : \E t \in Texts :
              dbgIn \in ConfigsWith(Member(n, TRUE, DStr(t)))
    /\ dbgKeys \in Vocabularies
    /\ dbgPc = "call"
    /\ dbgOut = << >>
    /\ data = << >> /\ maskPc = "idle" /\ masked = << >>
    /\ EnvIdle

DebugCall ==
    /\ dbgPc = "call"
    /\ \E ord \in MapOrders : dbgOut' = Debug(dbgIn, dbgKeys, ord)
    /\ dbgPc' = "done"
    /\ UNCHANGED <<dbgIn, dbgKeys>>
    /\ UNCHANGED <<pvars, mvars, evars>>

NextDebug == DebugCall

SpecDebug == InitDebug /\ [][NextDebug]_vars

(***************************************************************************)
(* Debug calls on the config that a PopulateAndValidate call is given, at  *)
(* any moment before, during and after that call.                          *)
(***************************************************************************)
\* the most fields of a config that is also rendered
MaxDebugNodes == 2

IsSmallRoot(r) ==
    \E n \in 0..MaxDebugNodes : \E ds \in DepthSeqs(n) : \E ts \in [1..n -> FieldTypes] :
        /\ WellTyped(n, ds, ts)
        /\ r = MkNode(RootType, BuildFields(ds, ts, 1, n, 1))

\* FieldName(p) as a text
RECURSIVE FieldNameText(_)
FieldNameText(p) ==
    IF p = << >> THEN <<"R", "o", "o", "t">>
    ELSE IF Len(p) = 1 THEN <<"F", ToString(p[1])>>
    ELSE FieldNameText(SubSeq(p, 1, Len(p) - 1)) \o <<"_", ToString(p[Len(p)])>>

\* the text of the value of a string field
ValueText(v) == IF v = "init" THEN <<"i", "n", "i", "t">> ELSE <<"e", "n", "v">>

\* the field at path p of the config, with the values vs, as Debug sees it
RECURSIVE ConfigValue(_, _)
ConfigValue(p, vs) ==
    LET n == NodeAt(root, p)
    IN  CASE n.kind = "str" -> DStr(ValueText(vs[p]))
          [] n.kind = "ptr" -> DPtr(DStruct(<< >>))
          [] n.kind = "iface" -> DNil
          [] n.kind = "struct" ->
                DStruct([i \in 1..Len(n.kids) |->
                            Member(FieldNameText(p \o <<i>>), n.kids[i].exported,
                                   ConfigValue(p \o <<i>>, vs))])

\* what the caller passes to Debug: the config as it passes it to
\* PopulateAndValidate
ConfigArgument(vs) ==
    IF shape = "ptr" THEN DPtr(ConfigValue(<< >>, vs)) ELSE ConfigValue(<< >>, vs)

TreeVocabularies == {<< >>, <<<<"f", "1">>>>}

InitInterleaved ==
    /\ shape \in RecordShapes /\ IsSmallRoot(root)
    /\ vals = [p \in StrPaths(root) |-> "init"]
    /\ pc = "start"
    /\ stack = << >>
    /\ err = NilErr
    /\ trace = << >>
    /\ dbgIn = DNil /\ dbgKeys = << >> /\ dbgPc = "idle" /\ dbgOut = << >>
    /\ data = << >> /\ maskPc = "idle" /\ masked = << >>
    /\ EnvIdle

\* a Debug that writes to the config it renders
DebugConfig_Writing ==
    /\ pc \notin {"idle", "panic"}
    /\ \E keys \in TreeVocabularies :
           /\ dbgIn' = ConfigArgument(vals)
           /\ dbgKeys' = keys
           /\ dbgOut' = Debug(ConfigArgument(vals), keys, "stored")
    /\ dbgPc' = "done"
    /\ vals' = [q \in DOMAIN vals |-> "env"]
    /\ UNCHANGED <<shape, root, pc, stack, err, trace>>
    /\ UNCHANGED <<mvars, evars>>

DebugConfig ==
    /\ pc \notin {"idle", "panic"}
    /\ \E keys \in TreeVocabularies :
           /\ dbgIn' = ConfigArgument(vals)
           /\ dbgKeys' = keys
           /\ dbgOut' = Debug(ConfigArgument(vals), keys, "stored")
    /\ dbgPc' = "done"
    /\ UNCHANGED <<pvars, mvars, evars>>

NextInterleaved == LoadEnv \/ EnterRoot \/ VisitField \/ Validate \/ DebugConfig

SpecInterleaved == InitInterleaved /\ [][NextInterleaved]_vars

(***************************************************************************)
(* One Debug call on a config of nested records and scalars that holds a   *)
(* secret: a text of characters, some of them of more than one byte.       *)
(***************************************************************************)
\* the longest secret, in characters
MaxSecretLen == 4

\* the characters of a secret, each as its UTF-8 bytes
SecretChars == {<<"a">>, <<"s">>, <<"*">>, <<"C3", "A9">>}

\* the bytes of a text of characters
RECURSIVE BytesOf(_)
BytesOf(cs) == IF cs = << >> THEN << >> ELSE Head(cs) \o BytesOf(Tail(cs))

\* the configs that hold the secret field f
SecretConfigs(f) ==
    { DStruct(<<f>>),
      DPtr(DStruct(<<HostField, f, PortField>>)),
      DPtr(DStruct(<<HostField, Member(NameDB, TRUE, DStruct(<<PortField, f>>))>>)) }

InitSecret ==
    /\ shape = "nil" /\ root = EmptyRoot
    /\ vals = [p \in StrPaths(root) |-> "init"]
    /\ pc = "idle" /\ stack = << >> /\ err = NilErr /\ trace = << >>
    /\ \E name \in {NamePass, NamePASS} : \E n \in 0..MaxSecretLen :
           \E cs \in [1..n -> SecretChars] :
               dbgIn \in SecretConfigs(Member(name, TRUE, DStr(BytesOf(cs))))
    /\ dbgKeys \in {<<<<"p", "a", "s", "s">>>>, <<<<"k", "e", "y">>, <<"P", "A", "S", "S">>>>}
    /\ dbgPc = "call"
    /\ dbgOut = << >>
    /\ data = << >> /\ maskPc = "idle" /\ masked = << >>
    /\ EnvIdle

SpecSecret == InitSecret /\ [][NextDebug]_vars

(***************************************************************************)
(* One direct maskSensitiveData call: the texts it is given.               *)
(***************************************************************************)
\* the longest text, in characters
MaxDataLen == 5

\* the characters of the texts, each as its UTF-8 bytes
DataChars == {<<"a">>, <<"*">>, <<"@">>, <<":">>, <<"C3", "A9">>}

RECURSIVE Flatten(_)
Flatten(cs) == IF cs = << >> THEN << >> ELSE Head(cs) \o Flatten(Tail(cs))

InitMask ==
    /\ shape = "nil" /\ root = EmptyRoot
    /\ vals = [p \in StrPaths(root) |-> "init"]
    /\ pc = "idle" /\ stack = << >> /\ err = NilErr /\ trace = << >>
    /\ dbgIn = DNil /\ dbgKeys = << >> /\ dbgPc = "idle" /\ dbgOut = << >>
    /\ \E n \in 0..MaxDataLen : \E cs \in [1..n -> DataChars] : data = Flatten(cs)
    /\ maskPc = "call"
    /\ masked = << >>
    /\ EnvIdle

MaskCall ==
    /\ maskPc = "call"
    /\ masked' = maskSensitiveData(data)
    /\ maskPc' = "done"
    /\ UNCHANGED data
    /\ UNCHANGED <<pvars, dvars, evars>>

NextMask == MaskCall

SpecMask == InitMask /\ [][NextMask]_vars

(***************************************************************************)
(* One direct LoadEnvVars call: the environments and directories given.    *)
(***************************************************************************)
InitEnv ==
    /\ shape = "nil" /\ root = EmptyRoot
    /\ vals = [p \in StrPaths(root) |-> "init"]
    /\ pc = "idle" /\ stack = << >> /\ err = NilErr /\ trace = << >>
    /\ dbgIn = DNil /\ dbgKeys = << >> /\ dbgPc = "idle" /\ dbgOut = << >>
    /\ data = << >> /\ maskPc = "idle" /\ masked = << >>
    /\ environ0 \in [EnvVarNames -> {"unset", "preset"}]
    /\ environ = environ0
    /\ envArg \in EnvNames
    /\ appDir \in [Range(EnvFiles) -> EnvFileKinds]
    /\ envPc = "call"
    /\ envRet = NilErr

LoadEnvVarsCall ==
    /\ envPc = "call"
    /\ LET res == LoadEnvVarsFrom(1, envArg, appDir, environ)
       IN  environ' = res.environ /\ envRet' = res.err
    /\ envPc' = "done"
    /\ UNCHANGED <<environ0, envArg, appDir>>
    /\ UNCHANGED <<pvars, dvars, mvars>>

NextEnv == LoadEnvVarsCall

SpecEnv == InitEnv /\ [][NextEnv]_vars

(***************************************************************************)
(* Vocabulary of the properties of PopulateAndValidate.                    *)
(***************************************************************************)
Fields == AllPaths(root) \ {<<>>}

PopulateEvents == {k \in 1..Len(trace) : trace[k].ev = "populate"}
ValidateEvents == {k \in 1..Len(trace) : trace[k].ev = "validate"}
EnvEvents == {k \in 1..Len(trace) : trace[k].ev = "env"}

\* callPopulate was applied to the field at path p
PopulatedAt(p) == \E k \in PopulateEvents : trace[k].at = p

\* the traversal of the whole tree returned nil
TraversalDone == pc = "validate" \/ (pc = "done" /\ ValidateEvents # {})

\* the value of the field, or a reference to it, has Populate in its method set
HasCapability(n) == TypeImplements(n) \/ AddrImplements(n)

\* the field and every record field enclosing it are exported, and the root
\* was passed by reference
Settable(p) == shape = "ptr" /\ \A k \in 1..Len(p) : NodeAt(root, SubSeq(p, 1, k)).exported

\* q is declared after p and is no part of p
DeclaredAfter(p, q) == PathLess(p, q) /\ ~IsPrefix(p, q)

(***************************************************************************)
(* C1 as stated: once the traversal of a record root has returned nil,     *)
(* Populate has been invoked on every field, at every nesting depth, whose *)
(* value or reference implements Config.                                   *)
(***************************************************************************)
C1_EveryCapableFieldPopulated ==
    (shape \in RecordShapes /\ TraversalDone)
        => \A p \in Fields : HasCapability(NodeAt(root, p)) => PopulatedAt(p)

(***************************************************************************)
(* C1 amended: once the traversal of a record root has returned nil,       *)
(* Populate has been invoked on every settable field (exported, inside     *)
(* exported record fields only, root passed by reference), at every        *)
(* nesting depth, whose value or reference implements Config.              *)
(***************************************************************************)
C1_EverySettableCapableFieldPopulated ==
    (shape \in RecordShapes /\ TraversalDone)
        => \A p \in Fields :
              (Settable(p) /\ HasCapability(NodeAt(root, p))) => PopulatedAt(p)

C1_Witness ==
    /\ pc = "done" /\ err = NilErr
    /\ \E p \in Fields :
          /\ Len(p) >= 2
          /\ Settable(p)
          /\ HasCapability(NodeAt(root, p))
          /\ PopulatedAt(p)

(***************************************************************************)
(* C2 as stated: once a Populate has returned an error the call is over:   *)
(* no field declared after the failing one, at its level or elsewhere, has *)
(* had Populate invoked, and those fields still have the values they had   *)
(* before the call.                                                        *)
(***************************************************************************)
C2_FailFastKeepsValues ==
    \A k \in PopulateEvents :
        ~trace[k].ok =>
            /\ k = Len(trace)
            /\ pc = "done"
            /\ \A q \in Fields :
                  DeclaredAfter(trace[k].at, q) =>
                      /\ ~PopulatedAt(q)
                      /\ q \in StrPaths(root) => vals[q] = "init"

(***************************************************************************)
(* C2 amended: once a Populate has returned an error the call is over:     *)
(* that invocation is the last thing that happened, no field declared      *)
(* after the failing one has had Populate invoked, and from then on no     *)
(* field changes: every field keeps the value it had when the failure      *)
(* occurred (which an enclosing record's Populate may have set earlier in  *)
(* the call).                                                              *)
(***************************************************************************)
PopulateHasFailed == \E k \in PopulateEvents : ~trace[k].ok

C2_FailFast ==
    /\ [](\A k \in PopulateEvents :
            ~trace[k].ok =>
                /\ k = Len(trace)
                /\ pc = "done"
                /\ \A q \in Fields : DeclaredAfter(trace[k].at, q) => ~PopulatedAt(q))
    /\ [][PopulateHasFailed => UNCHANGED <<vals, trace, err, pc>>]_vars

C2_Witness ==
    \E k \in PopulateEvents :
        /\ ~trace[k].ok
        /\ pc = "done"
        /\ Len(trace[k].at) >= 2
        /\ \E q \in Fields :
              /\ DeclaredAfter(trace[k].at, q)
              /\ Settable(q) /\ HasCapability(NodeAt(root, q)) /\ ~PopulatedAt(q)

(***************************************************************************)
(* C3: when the Populate invoked for a field returns an error, at any      *)
(* depth, PopulateAndValidate returns an error whose text contains the     *)
(* marker "failed to populate nested configs", the name of that field and  *)
(* the text of the cause.                                                  *)
(***************************************************************************)
C3_PopulateErrorText ==
    \A k \in PopulateEvents :
        ~trace[k].ok =>
            /\ pc = "done"
            /\ err # NilErr
            /\ ErrContains(err, "failed to populate nested configs")
            /\ ErrContains(err, FieldName(trace[k].at))
            /\ ErrContains(err, Cause(trace[k].recv))

C3_Witness ==
    \E k \in PopulateEvents :
        /\ ~trace[k].ok
        /\ Len(trace[k].at) >= 2
        /\ ErrContains(err, Cause(trace[k].recv))

(***************************************************************************)
(* C4: the three steps run in a fixed order and fail fast.  LoadEnvVars    *)
(* runs exactly once and before any Populate; the validator runs at most   *)
(* once, as the last step, after the traversal has returned nil; after a   *)
(* failed env load there is no Populate and no validation; after a failed  *)
(* Populate or a rejected root there is no validation.                     *)
(***************************************************************************)
C4_StepOrder ==
    /\ (pc = "start") = (trace = << >>)
    /\ pc # "start" => EnvEvents = {1}
    /\ \A k \in ValidateEvents :
          /\ k = Len(trace)
          /\ pc = "done"
          /\ stack = << >>
          /\ shape \in RecordShapes
          /\ \A j \in 1..(k - 1) : trace[j].ok
    /\ Cardinality(ValidateEvents) <= 1
    /\ (EnvEvents # {} /\ ~trace[1].ok) =>
          /\ Len(trace) = 1
          /\ pc = "done"
          /\ ErrContains(err, "failed to load environment variables")
    /\ (\E k \in PopulateEvents : ~trace[k].ok) => ValidateEvents = {}
    /\ (pc = "done" /\ ValidateEvents = {}) => err # NilErr

C4_Witness ==
    /\ pc = "done"
    /\ ValidateEvents # {}
    /\ Cardinality(PopulateEvents) >= 2

(***************************************************************************)
(* C5 as stated: for a root that is neither a record nor a reference to a  *)
(* record the call returns an error containing "expected struct or pointer *)
(* to struct" and naming the shape, and neither Populate nor the validator *)
(* runs.                                                                   *)
(***************************************************************************)
C5_InvalidRootRejected ==
    (shape \in OtherShapes /\ pc = "done") =>
        /\ err # NilErr
        /\ ErrContains(err, "expected struct or pointer to struct")
        /\ ErrContains(err, TypeName(shape))
        /\ PopulateEvents = {} /\ ValidateEvents = {}

(***************************************************************************)
(* C5 amended: for such a root neither Populate nor the validator runs and *)
(* the call returns a non-nil error; when LoadEnvVars succeeded the error  *)
(* contains "expected struct or pointer to struct" and names the shape,    *)
(* and when LoadEnvVars failed it is the env-load error instead.           *)
(***************************************************************************)
C5_InvalidRootRejectedAfterEnv ==
    (shape \in OtherShapes /\ pc = "done") =>
        /\ err # NilErr
        /\ PopulateEvents = {} /\ ValidateEvents = {}
        /\ IF trace[1].ok
           THEN /\ ErrContains(err, "expected struct or pointer to struct")
                /\ ErrContains(err, TypeName(shape))
           ELSE /\ ErrContains(err, "failed to load environment variables")
                /\ ~ErrContains(err, "expected struct or pointer to struct")

C5_Witness ==
    /\ shape = "ptrptr"
    /\ pc = "done"
    /\ ErrContains(err, "expected struct or pointer to struct")
    /\ ErrContains(err, "**config.AppConfig")

(***************************************************************************)
(* C6: when population of a record has succeeded, the call returns an      *)
(* error containing "validation failed" and every violation if the         *)
(* violation set is not empty, and nil if it is empty.                     *)
(***************************************************************************)
C6_ValidationResult ==
    (pc = "done" /\ shape \in RecordShapes /\ trace[1].ok
                 /\ \A k \in PopulateEvents : trace[k].ok) =>
        /\ ValidateEvents # {}
        /\ Violations # {} =>
              /\ err # NilErr
              /\ ErrContains(err, "validation failed")
              /\ \A k \in 1..Cardinality(Violations) :
                    ErrContains(err, ViolationText(InOrder(Violations))[k])
        /\ Violations = {} => err = NilErr

C6_Witness ==
    /\ pc = "done"
    /\ PopulateEvents # {}
    /\ Violations # {}
    /\ ErrContains(err, "validation failed")

(***************************************************************************)
(* C7: Populate is never invoked on the root passed in, although the root  *)
(* implements Config; only fields below it are populated, and the root's   *)
(* own string fields keep the values the caller gave them.                 *)
(***************************************************************************)
C7_RootNotPopulated ==
    /\ \A k \in PopulateEvents : trace[k].at # << >> /\ trace[k].recv # << >>
    /\ \A q \in StrPaths(root) : Len(q) = 1 => vals[q] = "init"

C7_Witness ==
    /\ pc = "done"
    /\ MethodOf(root).has
    /\ PopulateEvents # {}
    /\ \E q \in StrPaths(root) : Len(q) = 1
    /\ \E q \in StrPaths(root) : vals[q] = "env"

(***************************************************************************)
(* C8 as stated: during one call no record of the tree has its Populate    *)
(* invoked more than once.                                                 *)
(***************************************************************************)
C8_PopulatedAtMostOnce ==
    \A q \in AllPaths(root) :
        Cardinality({k \in PopulateEvents : trace[k].recv = q}) <= 1

(***************************************************************************)
(* Vocabulary of the properties of Debug.                                  *)
(***************************************************************************)
\* a nil or absent root: an untyped nil, or a typed nil reference
IsNilRoot(v) == v.kind = "nil" \/ (v.kind = "ptr" /\ v.kids = << >>)

\* name contains an entry of the vocabulary, letter case set aside
MatchesVocabulary(name, keys) ==
    \E k \in 1..Len(keys) : \E i \in 0..(Len(name) - Len(keys[k])) :
        \A j \in 1..Len(keys[k]) : ToLowerChar(name[i + j]) = ToLowerChar(keys[k][j])

\* the readable scalar fields of the records of the tree under v whose names
\* match the vocabulary, as [name, text]
RECURSIVE SensitiveScalarFields(_, _)
SensitiveScalarFields(v, keys) ==
    UNION { (IF v.kind = "struct" /\ v.kids[i].exported /\ IsScalar(v.kids[i].val)
                /\ MatchesVocabulary(v.kids[i].name, keys)
             THEN {[name |-> v.kids[i].name, text |-> v.kids[i].val.text]}
             ELSE {})
            \cup
            (IF v.kids[i].exported THEN SensitiveScalarFields(v.kids[i].val, keys)
             ELSE {})
          : i \in 1..Len(v.kids) }

(***************************************************************************)
(* C9: Debug of a nil or absent root, with any sensitivity vocabulary,     *)
(* returns exactly "Config Debug Output:\nnil\n", both for an untyped nil  *)
(* value and for a typed nil reference.                                    *)
(***************************************************************************)
C9_NilRootRendering ==
    (dbgPc = "done" /\ IsNilRoot(dbgIn))
        => dbgOut = Header \o <<"n", "i", "l", "\n">>

(***************************************************************************)
(* C10: every scalar field whose name matches a vocabulary entry           *)
(* case-insensitively is rendered with its value in masked form, and the   *)
(* raw original value is never a substring of the full Debug output.       *)
(***************************************************************************)
C10_MaskedAndNeverRaw ==
    dbgPc = "done" =>
        \A f \in SensitiveScalarFields(dbgIn, dbgKeys) :
            /\ IsSubstring(f.name \o <<":", " ">> \o maskSensitiveData(f.text) \o <<"\n">>,
                           dbgOut)
            /\ ~IsSubstring(f.text, dbgOut)

(***************************************************************************)
(* Vocabulary of the properties of maskSensitiveData.                      *)
(***************************************************************************)
HasByte(t, c) == \E i \in 1..Len(t) : t[i] = c

\* where the first c of t is (t has one)
FirstIndex(t, c) == CHOOSE i \in 1..Len(t) : t[i] = c /\ \A k \in 1..(i - 1) : t[k] # c

\* t with its first and last place kept and "*" at every place between
EndsKept(t) == [k \in 1..Len(t) |-> IF k = 1 \/ k = Len(t) THEN t[k] ELSE "*"]

\* a text that has both "@" and ":"
ConnectionShaped(t) == HasByte(t, "@") /\ HasByte(t, ":")

(***************************************************************************)
(* C11: for a text that contains both "@" and ":" and whose portion before *)
(* the first "@" is longer than 2, maskSensitiveData returns that portion  *)
(* with its first and last character kept and every character between      *)
(* replaced by "*", followed by "@" and the entire remainder of the text   *)
(* after the first "@", untouched, also when the remainder has further "@".*)
(***************************************************************************)
C11_ConnectionStringMasking ==
    (maskPc = "done" /\ ConnectionShaped(data) /\ FirstIndex(data, "@") - 1 > 2)
        => LET i == FirstIndex(data, "@")
           IN  masked = EndsKept(SubSeq(data, 1, i - 1)) \o <<"@">>
                            \o SubSeq(data, i + 1, Len(data))

(***************************************************************************)
(* C12: masking never shrinks or grows the text: for every input text,     *)
(* including texts that take the connection-string branch, the output of   *)
(* maskSensitiveData has exactly the same length as the input.             *)
(***************************************************************************)
C12_LengthPreserved ==
    maskPc = "done" => Len(masked) = Len(data)

(***************************************************************************)
(* C13: for any sensitive text of length >= 3 that does not contain both   *)
(* "@" and ":", maskSensitiveData returns a text of identical length with  *)
(* the same first and last character and every interior character equal   *)
(* to "*"; for length <= 2 it returns that many "*", and for the empty     *)
(* text the empty text.                                                    *)
(***************************************************************************)
C13_GenericMasking ==
    maskPc = "done" =>
        /\ (Len(data) >= 3 /\ ~ConnectionShaped(data)) => masked = EndsKept(data)
        /\ Len(data) <= 2 => masked = Repeat("*", Len(data))
        /\ data = << >> => masked = << >>

(***************************************************************************)
(* Vocabulary of the properties of the rendered text.                      *)
(***************************************************************************)
\* the value at the end of a chain of references (a nil reference ends it)
RECURSIVE Deref(_)
Deref(v) == IF v.kind = "ptr" /\ v.kids # << >> THEN Deref(v.kids[1].val) ELSE v

\* a record or mapping all of whose readable members are scalars
IsFlat(v) ==
    /\ v.kind \in {"struct", "map"}
    /\ v.kids # << >>
    /\ \A i \in 1..Len(v.kids) : v.kids[i].exported => IsScalar(v.kids[i].val)

\* the line of a scalar member: masked exactly when its name matches
ScalarLine(m, keys, indent) ==
    Repeat(" ", 2 * indent) \o m.name \o <<":", " ">> \o
        (IF MatchesVocabulary(m.name, keys) THEN maskSensitiveData(m.val.text)
         ELSE m.val.text) \o <<"\n">>

\* the lines of the readable members ms[i], ms[i+1], ..., one after the other
RECURSIVE ScalarLines(_, _, _, _)
ScalarLines(ms, keys, indent, i) ==
    IF i > Len(ms) THEN << >>
    ELSE (IF ms[i].exported THEN ScalarLine(ms[i], keys, indent) ELSE << >>)
             \o ScalarLines(ms, keys, indent, i + 1)

\* the texts a flat record or mapping may be rendered as: its members in
\* declaration order, those of a mapping in any order
FlatRenderings(v, keys, indent) ==
    IF v.kind = "struct" THEN {ScalarLines(v.kids, keys, indent, 1)}
    ELSE { ScalarLines([i \in 1..Len(v.kids) |-> v.kids[p[i]]], keys, indent, 1)
           : p \in Permutations(1..Len(v.kids)) }

(***************************************************************************)
(* C14: a field name or mapping key is treated as sensitive by Debug if    *)
(* and only if it contains at least one vocabulary entry as a substring    *)
(* when both are compared case-insensitively; with an empty vocabulary no  *)
(* name is sensitive and every value is rendered unmasked.                 *)
(***************************************************************************)
C14_SensitiveIffMatches ==
    dbgPc = "done" =>
        LET v == Deref(dbgIn)
        IN  /\ IsFlat(v) =>
                   \E body \in FlatRenderings(v, dbgKeys, 0) : dbgOut = Header \o body
            /\ (v.kind = "struct" /\ Len(v.kids) = 1 /\ v.kids[1].exported
                    /\ ~MatchesVocabulary(v.kids[1].name, dbgKeys)
                    /\ IsFlat(v.kids[1].val)) =>
                   \E body \in FlatRenderings(v.kids[1].val, dbgKeys, 1) :
                       dbgOut = Header \o v.kids[1].name \o <<":", " ", "\n">> \o body
            /\ dbgKeys = << >> =>
                   \A f \in SensitiveScalarFields(dbgIn, << << >> >>) :
                       IsSubstring(f.text, dbgOut)

\* a name that matches only when letter case is set aside, with a value
\* that masking changes, has been rendered
C14_Witness ==
    /\ dbgPc = "done"
    /\ dbgKeys = <<<<"p", "a", "s", "s">>>>
    /\ IsFlat(Deref(dbgIn))
    /\ \E i \in 1..Len(Deref(dbgIn).kids) :
           LET m == Deref(dbgIn).kids[i]
           IN  /\ m.exported /\ m.name = NamePASS
               /\ maskSensitiveData(m.val.text) # m.val.text

(***************************************************************************)
(* Empty collections.                                                      *)
(***************************************************************************)
IsEmptyCollection(v) == v.kind \in {"slice", "map"} /\ v.kids = << >>

\* the text the empty collection is to be rendered as
EmptyGlyph(v) == IF v.kind = "slice" THEN <<"[", "]">> ELSE <<"{", "}">>

\* the default text form of an empty collection
EmptyInline(v) ==
    IF v.kind = "slice" THEN <<"[", "]">> ELSE <<"m", "a", "p", "[", "]">>

Considered(env) ==
    IF env = "test" THEN <<"envLocal", "envFile", "base">>
    ELSE <<"envLocal", "local", "envFile", "base">>

\* the places in that order of the files that exist and define x
Defining(x, env, dir) ==
    {k \in 1..Len(Considered(env)) :
        /\ dir[Considered(env)[k]].state = "ok"
        /\ x \in dir[Considered(env)[k]].defines}

(***************************************************************************)
(* C16: after LoadEnvVars(env, dir) returns nil, every variable has its    *)
(* pre-existing process value if it was set before the call; otherwise the *)
(* value given by the first file, in the order .env.{env}.local,           *)
(* .env.local (skipped when env is "test"), .env.{env}, .env, that exists  *)
(* and defines it; files that do not exist are skipped without error.      *)
(***************************************************************************)
C16_EnvCascade ==
    envPc = "done" =>
        /\ envRet = NilErr =>
               \A x \in EnvVarNames :
                   environ[x] =
                       IF environ0[x] # "unset" THEN environ0[x]
                       ELSE IF Defining(x, envArg, appDir) = {} THEN "unset"
                       ELSE Considered(envArg)[SetMin(Defining(x, envArg, appDir))]
        /\ (\A k \in 1..Len(Considered(envArg)) :
                appDir[Considered(envArg)[k]].state # "bad") => envRet = NilErr

\* with env "test", a variable that .env.local and .env both define has the
\* value of .env, and a variable set before the call has kept its value
\* although a file defines it; .env.test.local does not exist
C16_Witness ==
    /\ envPc = "done" /\ envRet = NilErr /\ envArg = "test"
    /\ appDir["envLocal"].state = "absent"
    /\ appDir["local"].state = "ok" /\ "DB_HOST" \in appDir["local"].defines
    /\ appDir["base"].state = "ok" /\ appDir["base"].defines = EnvVarNames
    /\ environ0["DB_HOST"] = "unset" /\ environ["DB_HOST"] = "base"
    /\ environ0["DB_PASSWORD"] = "preset" /\ environ["DB_PASSWORD"] = "preset"

(***************************************************************************)
(* C17: Debug never mutates the tree it renders: after any Debug call, for *)
(* any input shape and vocabulary, every node of the tree has the value it *)
(* had before the call, so Debug calls can be interleaved with each other  *)
(* over the same tree and run before, after or instead of population       *)
(* without changing any result.                                            *)
(***************************************************************************)
\* a step in which Debug returns
DebugReturns == dbgPc' = "done" /\ <<dbgIn', dbgKeys', dbgOut'>> # <<dbgIn, dbgKeys, dbgOut>>

C17_DebugReadsOnly ==
    /\ [][DebugReturns => UNCHANGED <<shape, root, vals, pc, stack, err, trace>>]_vars
    /\ [][(<<shape, root, vals, pc, stack, err, trace>>' # <<shape, root, vals, pc, stack, err, trace>>)
              => Next]_vars
    /\ [](dbgPc = "done" =>
              \E vs \in [StrPaths(root) -> {"init", "env"}] :
                  dbgOut = Debug(ConfigArgument(vs), dbgKeys, "stored"))

\* Debug has rendered the config after a population that changed a value:
\* its text is not the text of the config as it was before the population
C17_Witness ==
    /\ pc = "done" /\ err = NilErr /\ dbgPc = "done"
    /\ \E p \in StrPaths(root) : vals[p] = "env"
    /\ dbgIn = ConfigArgument(vals)
    /\ dbgOut # Debug(ConfigArgument([p \in StrPaths(root) |-> "init"]), dbgKeys, "stored")

(***************************************************************************)
(* C18: a field that the engine cannot mutate (not settable: unexported,   *)
(* or reached through a root passed by value) is skipped only for the      *)
(* capability check; if it is a record, populateNestedConfigs still        *)
(* recurses into it and populates its populatable descendants.             *)
(***************************************************************************)
C18_NonSettableStillRecursed ==
    (shape \in RecordShapes /\ TraversalDone) =>
        \A p \in Fields :
            (~Settable(p) /\ NodeAt(root, p).kind = "struct") =>
                \A q \in Fields :
                    (IsPrefix(p, q) /\ q # p /\ NodeAt(root, q).exported
                         /\ HasCapability(NodeAt(root, q))) => PopulatedAt(q)

(***************************************************************************)
(* C18, as the code has it: a field that the engine cannot mutate is       *)
(* skipped altogether: no capability check is made for it and, if it is a  *)
(* record, populateNestedConfigs does not recurse into it, so the engine   *)
(* applies Populate to none of the fields below it.                        *)
(***************************************************************************)
C18_NonSettableSkippedWhole ==
    /\ \A k \in PopulateEvents : Settable(trace[k].at)
    /\ \A i \in 1..Len(stack) : stack[i].at # << >> => Settable(stack[i].at)

\* the traversal has returned nil, it has populated some field, and it has
\* left alone a field with Populate inside an unexported record
C18_Witness ==
    /\ shape = "ptr" /\ TraversalDone
    /\ PopulateEvents # {}
    /\ \E p, q \in Fields :
           /\ ~NodeAt(root, p).exported /\ NodeAt(root, p).kind = "struct"
           /\ IsPrefix(p, q) /\ q # p /\ NodeAt(root, q).exported
           /\ HasCapability(NodeAt(root, q))
           /\ ~PopulatedAt(q)

(***************************************************************************)
(* References below the root.                                              *)
(***************************************************************************)
\* v with every reference to a value replaced by that value; a nil
\* reference stays
RECURSIVE StripRefs(_)
StripRefs(v) ==
    IF v.kind = "ptr" /\ v.kids # << >> THEN StripRefs(v.kids[1].val)
    ELSE DValue(v.kind, v.text,
                [i \in 1..Len(v.kids) |->
                    Member(v.kids[i].name, v.kids[i].exported, StripRefs(v.kids[i].val))])

\* a readable member somewhere in v holds a nil reference
RECURSIVE HasNilMember(_)
HasNilMember(v) ==
    \E i \in 1..Len(v.kids) :
        v.kids[i].exported /\ (v.kids[i].val = DNilPtr \/ HasNilMember(v.kids[i].val))

(***************************************************************************)
(* C19: Debug dereferences references transparently at every depth: a      *)
(* reference (or chain of references) to a value, whether at the root, in  *)
(* a record field, in a sequence element or in a mapping value, renders as *)
(* the pointed-to value, and a nil reference at any depth renders as "nil" *)
(* at the current indent.                                                  *)
(***************************************************************************)
C19_ReferencesTransparent ==
    dbgPc = "done" =>
        /\ \E ord \in MapOrders : dbgOut = Debug(StripRefs(dbgIn), dbgKeys, ord)
        /\ HasNilMember(dbgIn) =>
               /\ IsSubstring(<<"n", "i", "l", "\n">>, dbgOut)
               /\ ~IsSubstring(<<"<", "n", "i", "l", ">">>, dbgOut)

(***************************************************************************)
(* Sensitive names at every depth.                                         *)
(***************************************************************************)
\* the readable record fields and mapping entries of the tree under v whose
\* names match the vocabulary and that lie under no other such name
RECURSIVE SensitiveMembers(_, _)
SensitiveMembers(v, keys) ==
    UNION { (IF ~v.kids[i].exported THEN {}
             ELSE IF v.kind \in {"struct", "map"} /\ MatchesVocabulary(v.kids[i].name, keys)
             THEN {v.kids[i]}
             ELSE SensitiveMembers(v.kids[i].val, keys))
          : i \in 1..Len(v.kids) }

(***************************************************************************)
(* C20: Debug recurses into all shapes when rendering, so masking applies  *)
(* at every depth: any record field name or mapping key that is sensitive  *)
(* has its value rendered masked wherever it sits in the tree, including   *)
(* inside a sequence or mapping that is itself an element of a sequence or *)
(* a value of a mapping, and inside a record reached through a             *)
(* reference-typed field or element.                                       *)
(***************************************************************************)
C20_MaskedAtEveryDepth ==
    dbgPc = "done" =>
        \A m \in SensitiveMembers(dbgIn, dbgKeys) :
            IsSubstring(m.name \o <<":", " ">> \o maskSensitiveData(fmtV(m.val, 0)) \o <<"\n">>,
                        dbgOut)

(***************************************************************************)
(* C21: the order of Populate invocations in PopulateAndValidate is        *)
(* deterministic: fields are visited in declaration order, depth-first,    *)
(* pre-order, i.e. a nested record's own Populate is invoked before the    *)
(* Populate of any of its descendants, and all of a field's descendants    *)
(* are handled before the next sibling field.                              *)
(***************************************************************************)
C21_PreOrder ==
    /\ \A k, l \in PopulateEvents :
           k < l => PathLess(trace[k].at, trace[l].at)
    /\ \A k, l \in PopulateEvents :
           (IsPrefix(trace[k].at, trace[l].at) /\ k # l) => k < l
    /\ \A k, l \in PopulateEvents :
           (k < l /\ ~IsPrefix(trace[k].at, trace[l].at)) =>
               \A q \in Fields :
                   (IsPrefix(trace[k].at, q) /\ Settable(q) /\ HasCapability(NodeAt(root, q)))
                       => \E j \in PopulateEvents : j < l /\ trace[j].at = q

\* a record, then a field inside it, then the record's next sibling have
\* been populated, in that order
C21_Witness ==
    \E k, l, j \in PopulateEvents :
        /\ k < l /\ l < j
        /\ Len(trace[k].at) = 1
        /\ IsPrefix(trace[k].at, trace[l].at) /\ Len(trace[l].at) = 2
        /\ Len(trace[j].at) = 1 /\ trace[j].at # trace[k].at

(***************************************************************************)
(* C22: every PopulateAndValidate call ends by returning either nil or a   *)
(* wrapped error value: for every field on which implementsConfig is true, *)
(* callPopulate obtains a Config and invokes its Populate without aborting *)
(* and without reaching its "field does not implement Config interface"    *)
(* branch, including when the field is of the Config interface type and    *)
(* holds nil.                                                              *)
(***************************************************************************)
C22_AlwaysReturns ==
    /\ pc # "panic"
    /\ \A i \in 1..Len(stack) :
           \A j \in 1..(stack[i].i - 1) :
               LET p == stack[i].at \o <<j>>
               IN  (j <= Len(NodeAt(root, stack[i].at).kids)
                        /\ CanSet(stack[i], NodeAt(root, p))
                        /\ implementsConfig(stack[i], NodeAt(root, p)))
                       => PopulatedAt(p)

(***************************************************************************)
(* Vocabulary of the properties of secrets.                                *)
(***************************************************************************)
\* the characters of a text given as bytes
RECURSIVE CharsOf(_)
CharsOf(t) ==
    IF t = << >> THEN << >>
    ELSE IF Head(t) = "C3" /\ Len(t) >= 2
    THEN <<SubSeq(t, 1, 2)>> \o CharsOf(SubSeq(t, 3, Len(t)))
    ELSE <<<<Head(t)>>>> \o CharsOf(Tail(t))

\* the texts that differ from the text of the characters cs in interior
\* characters at most
SameEnds(cs) ==
    {BytesOf(ds) : ds \in {es \in [1..Len(cs) -> SecretChars] :
                             es[1] = cs[1] /\ es[Len(cs)] = cs[Len(cs)]}}

\* v with the text t in place of the text of every sensitive-named scalar field
RECURSIVE WithSecret(_, _, _)
WithSecret(v, keys, t) ==
    DValue(v.kind, v.text,
           [i \in 1..Len(v.kids) |->
               Member(v.kids[i].name, v.kids[i].exported,
                      IF v.kind = "struct" /\ IsScalar(v.kids[i].val)
                             /\ MatchesVocabulary(v.kids[i].name, keys)
                      THEN DStr(t)
                      ELSE WithSecret(v.kids[i].val, keys, t))])

(***************************************************************************)
(* C23: noninterference of masked secrets: for two trees built only of     *)
(* nested records and scalars that are identical except for the interior   *)
(* characters of the text value of one sensitive-named field (same length  *)
(* >= 3, same first and last character, no "@" or ":"), Debug with the     *)
(* same vocabulary returns identical output.                               *)
(***************************************************************************)
C23_SecretsNoninterference ==
    dbgPc = "done" =>
        \A f \in SensitiveScalarFields(dbgIn, dbgKeys) :
            Len(CharsOf(f.text)) >= 3 =>
                \A t \in SameEnds(CharsOf(f.text)) :
                    Debug(WithSecret(dbgIn, dbgKeys, t), dbgKeys, "stored") = dbgOut

====
